---------------------------- MODULE Spec2Model ----------------------------
(***************************************************************************)
(* todo-due-calendar: an ICS feed of the unfinished Microsoft To Do tasks  *)
(* that carry a due date.  Two entry points live in the repository:        *)
(*   "index"  src/src/index.ts      (refresh-token cache, current server)  *)
(*   "msal"   src/unnamed/part_000  (MSAL device-code variant)             *)
(* Strings whose characters the code inspects (due timestamps, status)     *)
(* are sequences of one-character strings; identifiers, titles and secrets,*)
(* which are only concatenated or compared whole, are TLA+ strings.       *)
(*  A JavaScript Date built by Date.UTC(y, m, d) is kept as  *)
(* a day number since 1970-01-01 (its time of day is always 00:00 UTC).    *)
(***************************************************************************)
EXTENDS Integers, Sequences, FiniteSets, TLC

VARIABLES
    cfg,                 \* process.env as read at start-up, and the entry point
    clock,               \* Date.now(), in ms from an arbitrary origin (> 0)
    currentAccessToken,  \* index.ts:34
    tokenExpiryTime,     \* index.ts:35
    req,                 \* per request slot: the handler's position and locals
    issued,              \* auth server: how many access tokens it has issued
    nreq,                \* requests received so far
    env,                 \* the scenario: request slots, lists the upstream holds
    calImpl,             \* pure-function runs: which buildCalendar
    calIn,               \* pure-function runs: the tasks handed to it
    calOut               \* pure-function runs: its result

vars == <<cfg, clock, currentAccessToken, tokenExpiryTime, req, issued, nreq,
          env, calImpl, calIn, calOut>>

serverVars == <<cfg, clock, currentAccessToken, tokenExpiryTime, req, issued,
                nreq, env>>

calVars == <<calImpl, calIn, calOut>>

-----------------------------------------------------------------------------
(* JavaScript values *)

\* undefined, for an optional string field
Undefined == <<"undefined">>

\* NaN, for a number
NaN == -1000000

\* `x || ""`, `x ?? ""` and truthiness of an optional string
OrEmpty(s) == IF s = Undefined THEN <<>> ELSE s

Truthy(s) == s # Undefined /\ s # <<>>

DigitChars == <<"0", "1", "2", "3", "4", "5", "6", "7", "8", "9">>

IsDigit(c) == \E i \in 1..10 : DigitChars[i] = c

DigitVal(c) == (CHOOSE i \in 1..10 : DigitChars[i] = c) - 1

RECURSIVE DigitsValue(_)
DigitsValue(s) ==
    IF s = <<>> THEN 0
    ELSE 10 * DigitsValue(SubSeq(s, 1, Len(s) - 1)) + DigitVal(s[Len(s)])

\* Number(s) on strings over digits and other non-blank characters:
\* "" is 0, a run of decimal digits is its value, anything else is NaN
Number(s) ==
    IF s = <<>> THEN 0
    ELSE IF \A i \in 1..Len(s) : IsDigit(s[i]) THEN DigitsValue(s)
    ELSE NaN

\* String.prototype.slice(0, n)
Slice0(s, n) == SubSeq(s, 1, IF Len(s) < n THEN Len(s) ELSE n)

\* String.prototype.split(sep): the pieces between the separators
RECURSIVE Split(_, _)
Split(s, sep) ==
    IF \A i \in 1..Len(s) : s[i] # sep THEN <<s>>
    ELSE LET k == CHOOSE i \in 1..Len(s) :
                      s[i] = sep /\ \A j \in 1..(i - 1) : s[j] # sep
         IN  <<SubSeq(s, 1, k - 1)>> \o Split(SubSeq(s, k + 1, Len(s)), sep)

UpperChars == <<"A", "B", "C", "D", "E", "F", "G", "H", "I", "J", "K", "L", "M",
                "N", "O", "P", "Q", "R", "S", "T", "U", "V", "W", "X", "Y", "Z">>

LowerChars == <<"a", "b", "c", "d", "e", "f", "g", "h", "i", "j", "k", "l", "m",
                "n", "o", "p", "q", "r", "s", "t", "u", "v", "w", "x", "y", "z">>

LowerChar(c) ==
    IF \E i \in 1..26 : UpperChars[i] = c
    THEN LowerChars[CHOOSE i \in 1..26 : UpperChars[i] = c]
    ELSE c

\* String.prototype.toLowerCase()
toLowerCase(s) == [i \in 1..Len(s) |-> LowerChar(s[i])]

completed == <<"c", "o", "m", "p", "l", "e", "t", "e", "d">>

-----------------------------------------------------------------------------
(* ECMAScript dates (ECMA-262, 21.4.1), in whole days *)

DaysInYear(y) ==
    IF y % 4 # 0 THEN 365
    ELSE IF y % 100 # 0 THEN 366
    ELSE IF y % 400 # 0 THEN 365
    ELSE 366

\* DayFromYear(y): the day number of 1 January of year y
DayFromYear(y) ==
    365 * (y - 1970) + ((y - 1969) \div 4) - ((y - 1901) \div 100)
        + ((y - 1601) \div 400)

\* days of the year before month index m (0 = January)
DaysBeforeMonth(y, m) ==
    LET leap == IF DaysInYear(y) = 366 THEN 1 ELSE 0
    IN  CASE m = 0 -> 0
          [] m = 1 -> 31
          [] m = 2 -> 59 + leap
          [] m = 3 -> 90 + leap
          [] m = 4 -> 120 + leap
          [] m = 5 -> 151 + leap
          [] m = 6 -> 181 + leap
          [] m = 7 -> 212 + leap
          [] m = 8 -> 243 + leap
          [] m = 9 -> 273 + leap
          [] m = 10 -> 304 + leap
          [] m = 11 -> 334 + leap

\* MakeDay(year, month, date)
MakeDay(year, month, date) ==
    LET ym == year + (month \div 12)
        mn == month % 12
    IN  DayFromYear(ym) + DaysBeforeMonth(ym, mn) + date - 1

\* MakeFullYear, inlined in Date.UTC: a year of 0..99 means 1900 + year
MakeFullYear(y) == IF 0 <= y /\ y <= 99 THEN 1900 + y ELSE y

\* Date.UTC(y, m, d) with a missing or NaN argument giving NaN
\* (split() returning fewer than three pieces leaves m or d undefined)
DateUTC(y, m, d) ==
    IF y = NaN \/ m = NaN \/ d = NaN THEN NaN
    ELSE MakeDay(MakeFullYear(y), m, d)

\* getUTCFullYear / getUTCMonth + 1 / getUTCDate of a valid Date
\* YearFromTime: the largest y with DayFromYear(y) <= day
YearFromDay(day) ==
    LET a == 1970 + day \div 365
        b == 1970 + day \div 366
    IN  CHOOSE y \in ((IF a < b THEN a ELSE b) - 1)..((IF a < b THEN b ELSE a) + 1) :
            DayFromYear(y) <= day /\ day < DayFromYear(y + 1)

MonthFromDay(day) ==
    LET y == YearFromDay(day)
        n == day - DayFromYear(y)
    IN  1 + CHOOSE m \in 0..11 :
                /\ DaysBeforeMonth(y, m) <= n
                /\ (m = 11 \/ n < DaysBeforeMonth(y, m + 1))

DateFromDay(day) ==
    LET y == YearFromDay(day)
        n == day - DayFromYear(y)
    IN  n - DaysBeforeMonth(y, MonthFromDay(day) - 1) + 1

\* the calendar date a Date is written as in DTSTART;VALUE=DATE
CivilOf(day) == <<YearFromDay(day), MonthFromDay(day), DateFromDay(day)>>

-----------------------------------------------------------------------------
(* Tasks and the calendar builder *)

\* t.dueDateTime?.dateTime
dueOf(t) ==
    IF t.dueDateTime.present THEN t.dueDateTime.dateTime ELSE Undefined

\* x - 1 and x + 1 on a number that may be NaN
Minus1(x) == IF x = NaN THEN NaN ELSE x - 1

Plus1(x) == IF x = NaN THEN NaN ELSE x + 1

\* const [y, m, d] = iso.slice(0, 10).split("-").map(Number)
ymdOf(iso) ==
    LET parts == Split(Slice0(iso, 10), "-")
        at(k) == IF k <= Len(parts) THEN Number(parts[k]) ELSE NaN
    IN  <<at(1), at(2), at(3)>>

\* the options object handed to cal.createEvent
eventOf(t, iso) ==
    LET ymd == ymdOf(iso)
    IN  [id      |-> "todo-" \o t.id,
         start   |-> DateUTC(ymd[1], Minus1(ymd[2]), ymd[3]),
         end     |-> DateUTC(ymd[1], Minus1(ymd[2]), Plus1(ymd[3])),
         allDay  |-> TRUE,
         summary |-> IF t.title = "" THEN "(untitled task)" ELSE t.title]

\* cal.createEvent rejects an Invalid Date ("`start` has to be a valid date!")
createEventThrows(e) == e.start = NaN \/ e.end = NaN

Threw == [ok |-> FALSE, events |-> <<>>]

\* index.ts: `if (!iso) continue;`
skipsTask(t) == ~Truthy(dueOf(t))

RECURSIVE buildLoop(_, _)
buildLoop(tasks, events) ==
    IF tasks = <<>> THEN [ok |-> TRUE, events |-> events]
    ELSE LET t == Head(tasks)
         IN  IF skipsTask(t) THEN buildLoop(Tail(tasks), events)
             ELSE LET e == eventOf(t, dueOf(t))
                  IN  IF createEventThrows(e) THEN Threw
                      ELSE buildLoop(Tail(tasks), Append(events, e))

\* index.ts buildCalendar
buildCalendar(tasks) == buildLoop(tasks, <<>>)

\* part_000: `const iso = t.dueDateTime!.dateTime!;` then iso.slice(0, 10):
\* a missing dueDateTime or dateTime is a TypeError
RECURSIVE buildLoopMsal(_, _)
buildLoopMsal(tasks, events) ==
    IF tasks = <<>> THEN [ok |-> TRUE, events |-> events]
    ELSE LET t == Head(tasks)
         IN  IF dueOf(t) = Undefined THEN Threw
             ELSE LET e == eventOf(t, dueOf(t))
                  IN  IF createEventThrows(e) THEN Threw
                      ELSE buildLoopMsal(Tail(tasks), Append(events, e))

\* part_000 buildCalendar
buildCalendarMsal(tasks) == buildLoopMsal(tasks, <<>>)

\* a filter that compares the status as it is written
keepsTaskCaseSensitive(t) ==
    /\ Truthy(dueOf(t))
    /\ OrEmpty(t.status) # completed

\* const due = ...; const done = (t.status || "").toLowerCase() === "completed";
\* if (due && !done) all.push(t)
keepsTask(t) ==
    /\ Truthy(dueOf(t))
    /\ toLowerCase(OrEmpty(t.status)) # completed

RECURSIVE filterTasks(_)
filterTasks(tasks) ==
    IF tasks = <<>> THEN <<>>
    ELSE (IF keepsTask(Head(tasks)) THEN <<Head(tasks)>> ELSE <<>>)
             \o filterTasks(Tail(tasks))

\* index.ts: the "Flatten and filter" loops over allTaskArrays
RECURSIVE flattenAndFilter(_)
flattenAndFilter(arrays) ==
    IF arrays = <<>> THEN <<>>
    ELSE filterTasks(Head(arrays)) \o flattenAndFilter(Tail(arrays))

-----------------------------------------------------------------------------
(* Bounds of the scenarios *)

\* requests received, clock advances and task lists enumerated in one run:
\* of the sequential feed (Spec, SpecGate) and of the concurrent one (SpecConc)
MaxRequests == 2
MaxTicks == 1
MaxLists == 2
MaxRequestsConc == 2
MaxTicksConc == 2
MaxListsGate == 1
\* tasks handed to one buildCalendar run (SpecCal)
MaxTasks == 2

\* one clock advance, in ms
TickMs == 30000

\* expires_in values (seconds) the authorization endpoint answers with
ExpiresIn == {30, 60, 120}

-----------------------------------------------------------------------------
(* Inputs: tasks the upstream holds *)

RECURSIVE Pad(_, _)
Pad(n, w) == IF w = 0 THEN <<>> ELSE Pad(n \div 10, w - 1) \o <<DigitChars[(n % 10) + 1]>>

DateStr(y, m, d) == Pad(y, 4) \o <<"-">> \o Pad(m, 2) \o <<"-">> \o Pad(d, 2)

Midnight == <<"T", "0", "0", ":", "0", "0", ":", "0", "0">>

LateEvening == <<"T", "2", "3", ":", "5", "9", ":", "5", "9">>

NoDue == [present |-> FALSE, dateTime |-> Undefined, timeZone |-> Undefined]

Due(iso, tz) == [present |-> TRUE, dateTime |-> iso, timeZone |-> tz]

Task(id, title, status, due) ==
    [id |-> id, title |-> title, status |-> status, dueDateTime |-> due]

notStarted == <<"n", "o", "t", "S", "t", "a", "r", "t", "e", "d">>

Completed == <<"C", "o", "m", "p", "l", "e", "t", "e", "d">>

UTC == <<"U", "T", "C">>

TRent == Task("abc", "Pay rent", notStarted, Due(DateStr(2024, 1, 1) \o Midnight, UTC))

TDone == Task("d1", "Done", completed, Due(DateStr(2024, 3, 15) \o Midnight, UTC))

TDoneCap == Task("d2", "Done too", Completed, Due(DateStr(2024, 3, 15) \o Midnight, UTC))

TNoStatus == Task("n1", "", Undefined, Due(DateStr(2024, 2, 29) \o LateEvening, Undefined))

TNoDue == Task("u1", "Someday", notStarted, NoDue)

TNoDateTime == Task("u2", "Someday", notStarted, Due(Undefined, UTC))

TEmptyDue == Task("u3", "Someday", notStarted, Due(<<>>, UTC))

TBadDue == Task("b1", "Garbled", notStarted, Due(<<"s", "o", "o", "n">>, UTC))

\* a `value` array of a Graph response, or a response without `value`
Value(v) == [present |-> TRUE, v |-> v]

NoValue == [present |-> FALSE, v |-> <<>>]

\* `json.value ?? []`
valueOrEmpty(val) == IF val.present THEN val.v ELSE <<>>

RichArrays ==
    {NoValue, Value(<<TRent, TDoneCap, TEmptyDue>>),
     Value(<<TNoDue, TDone, TNoStatus, TNoDateTime>>), Value(<<TBadDue>>)}

PlainArrays == {Value(<<>>)}

ListIds == <<"L1", "L2", "L3", "L4">>

ListValues(n) == {NoValue} \cup {Value(SubSeq(ListIds, 1, k)) : k \in 0..n}

-----------------------------------------------------------------------------
(* Inputs: configuration and requests *)

\* An access token: its serial number, when the authorization endpoint issued
\* it and the lifetime (seconds) it was issued with.  Serial 0 is null, serial
\* 1 the configured ACCESS_TOKEN (or the token MSAL hands out), whose issue
\* time and lifetime the process never learns; 2, 3, ... are the tokens the
\* refresh exchange returns, each one new.
Token(id, iat, lifetime) == [id |-> id, iat |-> iat, lifetime |-> lifetime]

NoToken == Token(0, 0, 0)

StaticToken == Token(1, 0, 0)

Secrets == {"", "s3cret", "a,b"}

\* req.query.token: absent, a string, or an array of strings (a repeated
\* parameter, or token[]=...)
Absent == [kind |-> "absent", v |-> <<>>]

Str(x) == [kind |-> "string", v |-> <<x>>]

Arr(xs) == [kind |-> "array", v |-> xs]

Queries == {Absent, Str(""), Str("s3cret"), Str("wrong"), Arr(<<"s3cret">>),
            Arr(<<"a", "b">>)}

\* Array.prototype.join(",") as String(array) applies it
RECURSIVE join(_)
join(xs) ==
    IF xs = <<>> THEN ""
    ELSE IF Len(xs) = 1 THEN xs[1]
    ELSE xs[1] \o "," \o join(Tail(xs))

\* String(req.query.token || "")
tokenParam(q) ==
    IF q.kind = "absent" THEN ""
    ELSE IF q.kind = "string" THEN q.v[1]
    ELSE join(q.v)

Configs ==
    {[entry |-> "index", ACCESS_TOKEN |-> a, REFRESH_TOKEN |-> rt, ICS_TOKEN |-> s] :
        a \in {NoToken, StaticToken}, rt \in BOOLEAN, s \in Secrets}
    \cup
    {[entry |-> "msal", ACCESS_TOKEN |-> NoToken, REFRESH_TOKEN |-> FALSE, ICS_TOKEN |-> s] :
        s \in Secrets}

\* index.ts:19-25: the process exits unless one of the two tokens is set
startsUp(c) == c.entry = "msal" \/ c.ACCESS_TOKEN # NoToken \/ c.REFRESH_TOKEN

-----------------------------------------------------------------------------
(* The server: state of one request slot *)

\* request slots: handlers that can be in flight at once
Slots == {1, 2}

NoResp == [kind |-> "none", access_token |-> NoToken, expires_in |-> 0]

\* pc: where the async handler is suspended
\*   idle           no request in this slot
\*   await_refresh  getValidAccessToken: `await fetch(tokenUrl, ...)`
\*   await_acquire  part_000: `await acquireToken()`
\*   await_lists    fetchDueTasks: `await fetch(.../me/todo/lists)`
\*   await_tasks    fetchDueTasks: `await fetch(.../lists/<id>/tasks)`
\*   delay          index.ts: `await new Promise(... setTimeout(resolve, 100))`
\*   done           the handler has returned
\* The fields of the last two lines record what the request read, sent and
\* received; the code does not read them:
\*   seen         the cached token and expiry getValidAccessToken found
\*   fromCache    the token came from the cache
\*   refreshes    refresh requests sent
\*   tokenAnswer  how the refresh exchange (or acquireToken) settled
\*   graph        Graph requests sent: "lists", then list ids
\*   answers      how each Graph request settled
\*   fetched      the task arrays received, in order
NoCache == [token |-> NoToken, expiry |-> 0]

IdleReq ==
    [pc |-> "idle", query |-> Absent, now |-> 0, accessToken |-> NoToken,
     resp |-> NoResp, lists |-> <<>>, i |-> 0, allTaskArrays |-> <<>>,
     all |-> <<>>, responses |-> <<>>,
     seen |-> NoCache, fromCache |-> FALSE, refreshes |-> 0, tokenAnswer |-> "none",
     graph |-> <<>>, answers |-> <<>>, fetched |-> <<>>]

\* res.status(code).send(body) / res.send(cal.toString())
send(rq, status, body, events) ==
    [rq EXCEPT !.responses = Append(@, [status |-> status, body |-> body,
                                        events |-> events])]

\* the handler returns: its locals are gone, what it sent and received stays
returned(rq) ==
    [rq EXCEPT !.pc = "done", !.now = 0, !.accessToken = NoToken, !.resp = NoResp,
               !.lists = <<>>, !.i = 0, !.allTaskArrays = <<>>, !.all = <<>>,
               !.seen = NoCache]

\* a catch block that logs and sends nothing
caughtSilently(rq) == returned(rq)

\* the handler's catch block: res.status(500).send("Calendar feed error")
caught(rq) == returned(send(rq, 500, "Calendar feed error", <<>>))

\* const cal = buildCalendar(tasks); ...; res.send(cal.toString())
respondWith(rq, tasks) ==
    LET cal == IF cfg.entry = "index" THEN buildCalendar(tasks)
               ELSE buildCalendarMsal(tasks)
    IN  IF cal.ok THEN returned(send(rq, 200, "text/calendar", cal.events))
        ELSE caught(rq)

\* fetch(`${GRAPH}/me/todo/lists`, { headers }) is sent
requestLists(rq, token) ==
    [rq EXCEPT !.pc = "await_lists", !.accessToken = token,
               !.graph = Append(@, "lists")]

\* fetch(`${GRAPH}/me/todo/lists/${list.id}/tasks`, { headers }) is sent
requestTasks(rq, k) ==
    [rq EXCEPT !.pc = "await_tasks", !.i = k, !.graph = Append(@, rq.lists[k])]

\* a fetch whose answer is used without looking at response.ok
notOkRejectOnly(kind) == kind = "reject"

\* `if (!response.ok) throw ...`; a rejected fetch throws by itself
notOk(kind) == kind # "ok"

\* `if (ICS_TOKEN) { ... if (token !== ICS_TOKEN) return res.status(401)... }`
unauthorized(q) == cfg.ICS_TOKEN # "" /\ tokenParam(q) # cfg.ICS_TOKEN

\* a cache still taken as valid at the instant of its expiry
cacheValidInclusive(now) == currentAccessToken # NoToken /\ now <= tokenExpiryTime

\* `if (currentAccessToken && now < tokenExpiryTime)`
cacheValid(now) == currentAccessToken # NoToken /\ now < tokenExpiryTime

\* an expiry without the 60 s margin
expiryOfNoMargin(now, expires_in) == now + expires_in * 1000

\* `now + tokenResponse.expires_in * 1000 - 60000`
expiryOf(now, expires_in) == now + expires_in * 1000 - 60000

\* `const now = Date.now()` in getValidAccessToken
nowOf(rq) == rq.now

\* a getValidAccessToken with a single-flight guard: a call that finds another
\* call's refresh pending waits for it instead of sending its own
tokenStepSingleFlight(rq) ==
    IF ~cfg.REFRESH_TOKEN
    THEN IF cfg.ACCESS_TOKEN = NoToken THEN caught(rq)
         ELSE requestLists(rq, cfg.ACCESS_TOKEN)
    ELSE LET call == [rq EXCEPT !.now = clock,
                                !.seen = [token |-> currentAccessToken,
                                          expiry |-> tokenExpiryTime]]
         IN  IF cacheValid(clock)
             THEN requestLists([call EXCEPT !.fromCache = TRUE], currentAccessToken)
             ELSE IF \E o \in Slots : req[o].pc = "await_refresh"
             THEN [call EXCEPT !.pc = "await_refresh"]
             ELSE [call EXCEPT !.pc = "await_refresh", !.refreshes = @ + 1]

\* getValidAccessToken up to its first await
tokenStep(rq) ==
    IF ~cfg.REFRESH_TOKEN
    THEN IF cfg.ACCESS_TOKEN = NoToken THEN caught(rq)
         ELSE requestLists(rq, cfg.ACCESS_TOKEN)
    ELSE LET call == [rq EXCEPT !.now = clock,
                                !.seen = [token |-> currentAccessToken,
                                          expiry |-> tokenExpiryTime]]
         IN  IF cacheValid(clock)
             THEN requestLists([call EXCEPT !.fromCache = TRUE], currentAccessToken)
             ELSE [call EXCEPT !.pc = "await_refresh", !.refreshes = @ + 1]

\* the handler from the request's arrival to its first await
handlerStart(rq, q) ==
    IF unauthorized(q) THEN returned(send(rq, 401, "Unauthorized", <<>>))
    ELSE IF cfg.entry = "index" THEN tokenStep(rq)
    ELSE [rq EXCEPT !.pc = "await_acquire"]

-----------------------------------------------------------------------------
(* The server: actions *)

\* GET /todo-due.ics arrives
HandleRequest(r) ==
    /\ r \in env.slots
    /\ req[r].pc \in {"idle", "done"}
    /\ nreq < env.maxRequests
    /\ \E q \in env.queries :
           req' = [req EXCEPT ![r] = handlerStart([IdleReq EXCEPT !.query = q], q)]
    /\ nreq' = nreq + 1
    /\ UNCHANGED <<cfg, clock, currentAccessToken, tokenExpiryTime, issued, env, calVars>>

\* the authorization endpoint answers the refresh request
AuthResponds(r) ==
    /\ req[r].pc = "await_refresh"
    /\ req[r].resp.kind = "none"
    /\ \E kind \in env.authKinds, e \in ExpiresIn :
           IF kind = "ok"
           THEN /\ issued' = issued + 1
                /\ req' = [req EXCEPT ![r].resp =
                               [kind |-> "ok", access_token |-> Token(issued + 2, clock, e),
                                expires_in |-> e]]
           ELSE /\ e = CHOOSE x \in ExpiresIn : TRUE
                /\ issued' = issued
                /\ req' = [req EXCEPT ![r].resp =
                               [kind |-> kind, access_token |-> NoToken,
                                expires_in |-> 0]]
    /\ UNCHANGED <<cfg, clock, currentAccessToken, tokenExpiryTime, nreq, env, calVars>>

\* a getValidAccessToken that drops the cached token when the refresh fails
RefreshReturnsClearing(r) ==
    /\ req[r].pc = "await_refresh"
    /\ req[r].resp.kind # "none"
    /\ LET rq == [req[r] EXCEPT !.tokenAnswer = req[r].resp.kind]
       IN  IF notOk(rq.resp.kind)
           THEN /\ req' = [req EXCEPT ![r] = caught(rq)]
                /\ currentAccessToken' = NoToken
                /\ tokenExpiryTime' = 0
           ELSE /\ currentAccessToken' = rq.resp.access_token
                /\ tokenExpiryTime' = expiryOf(nowOf(rq), rq.resp.expires_in)
                /\ req' = [req EXCEPT ![r] = requestLists(rq, rq.resp.access_token)]
    /\ UNCHANGED <<cfg, clock, issued, nreq, env, calVars>>

\* getValidAccessToken resumes after `await fetch(tokenUrl)` / response.json()
RefreshReturns(r) ==
    /\ req[r].pc = "await_refresh"
    /\ req[r].resp.kind # "none"
    /\ LET rq == [req[r] EXCEPT !.tokenAnswer = req[r].resp.kind]
       IN  IF notOk(rq.resp.kind)
           THEN /\ req' = [req EXCEPT ![r] = caught(rq)]
                /\ UNCHANGED <<currentAccessToken, tokenExpiryTime>>
           ELSE /\ currentAccessToken' = rq.resp.access_token
                /\ tokenExpiryTime' = expiryOf(nowOf(rq), rq.resp.expires_in)
                /\ req' = [req EXCEPT ![r] = requestLists(rq, rq.resp.access_token)]
    /\ UNCHANGED <<cfg, clock, issued, nreq, env, calVars>>

\* part_000: `await acquireToken()` settles (MSAL silent or device-code flow)
AcquireTokenReturns(r) ==
    /\ req[r].pc = "await_acquire"
    /\ \E kind \in {"ok", "reject"} :
           LET rq == [req[r] EXCEPT !.tokenAnswer = kind]
           IN  req' = [req EXCEPT ![r] =
                          IF kind = "ok" THEN requestLists(rq, StaticToken)
                          ELSE caught(rq)]
    /\ UNCHANGED <<cfg, clock, currentAccessToken, tokenExpiryTime, issued, nreq, env, calVars>>

\* the list-enumeration call settles
ListsResponse(r) ==
    /\ req[r].pc = "await_lists"
    /\ \E kind \in env.graphKinds, val \in ListValues(env.maxLists) :
           /\ kind # "ok" => val = NoValue
           /\ LET rq == [req[r] EXCEPT !.answers = Append(@, kind)]
              IN  req' = [req EXCEPT ![r] =
                     IF notOk(kind) THEN caught(rq)
                     ELSE LET got == [rq EXCEPT !.lists = valueOrEmpty(val)]
                          IN  IF got.lists = <<>> THEN respondWith(got, <<>>)
                              ELSE requestTasks(got, 1)]
    /\ UNCHANGED <<cfg, clock, currentAccessToken, tokenExpiryTime, issued, nreq, env, calVars>>

\* what follows one list's tasks: the next list's request, or the response
afterList(rq, tasks) ==
    IF rq.i < Len(rq.lists) THEN requestTasks(rq, rq.i + 1)
    ELSE respondWith(rq, tasks)

\* a per-list task call settles
TasksResponse(r) ==
    /\ req[r].pc = "await_tasks"
    /\ \E kind \in env.graphKinds, val \in env.arrays :
           /\ kind # "ok" => val = CHOOSE x \in env.arrays : TRUE
           /\ LET rq == [req[r] EXCEPT !.answers = Append(@, kind)]
              IN  req' = [req EXCEPT ![r] =
                     IF notOk(kind) THEN caught(rq)
                     ELSE LET tasks == valueOrEmpty(val)
                              got == [rq EXCEPT !.fetched = Append(@, tasks)]
                          IN  IF cfg.entry = "index"
                              THEN [got EXCEPT !.allTaskArrays = Append(@, tasks),
                                               !.pc = "delay"]
                              ELSE LET acc == [got EXCEPT !.all = @ \o filterTasks(tasks)]
                                   IN  afterList(acc, acc.all)]
    /\ UNCHANGED <<cfg, clock, currentAccessToken, tokenExpiryTime, issued, nreq, env, calVars>>

\* index.ts: the 100 ms timer between two list requests fires
DelayElapsed(r) ==
    /\ req[r].pc = "delay"
    /\ req' = [req EXCEPT ![r] =
                  afterList(req[r], flattenAndFilter(req[r].allTaskArrays))]
    /\ UNCHANGED <<cfg, clock, currentAccessToken, tokenExpiryTime, issued, nreq, env, calVars>>

\* time passes
Tick ==
    /\ clock + TickMs <= 1 + env.maxTicks * TickMs
    /\ clock' = clock + TickMs
    /\ UNCHANGED <<cfg, currentAccessToken, tokenExpiryTime, req, issued, nreq, env, calVars>>

NoCal == [ok |-> TRUE, events |-> <<>>]

InitServer(slots, configs, queries, arrays, graphKinds, maxRequests, maxTicks, maxLists) ==
    /\ cfg \in {c \in configs : startsUp(c)}
    /\ clock = 1
    /\ currentAccessToken = cfg.ACCESS_TOKEN
    /\ tokenExpiryTime = 0
    /\ req = [r \in Slots |-> IdleReq]
    /\ issued = 0
    /\ nreq = 0
    /\ env = [slots |-> slots, queries |-> queries, arrays |-> arrays,
              authKinds |-> {"ok", "nonok", "reject"},
              graphKinds |-> graphKinds,
              maxRequests |-> maxRequests, maxTicks |-> maxTicks,
              maxLists |-> maxLists]
    /\ calImpl = "none"
    /\ calIn = <<>>
    /\ calOut = NoCal

\* Spec: requests handled one at a time, as the deployment expects, against
\* an upstream holding every kind of task
Init ==
    InitServer({1}, {c \in Configs : c.ICS_TOKEN \in {"", "s3cret"}},
               {Absent, Str("s3cret")}, RichArrays, {"ok", "nonok", "reject"},
               MaxRequests, MaxTicks, MaxLists)

Next ==
    \/ \E r \in Slots : HandleRequest(r)
    \/ \E r \in Slots : AuthResponds(r)
    \/ \E r \in Slots : RefreshReturns(r)
    \/ \E r \in Slots : AcquireTokenReturns(r)
    \/ \E r \in Slots : ListsResponse(r)
    \/ \E r \in Slots : TasksResponse(r)
    \/ \E r \in Slots : DelayElapsed(r)
    \/ Tick

Spec == Init /\ [][Next]_vars

\* SpecGate: the same feed, with every secret and every shape of token parameter
InitGate ==
    InitServer({1}, Configs, Queries, PlainArrays, {"ok", "nonok"},
               MaxRequests, MaxTicks, MaxListsGate)

SpecGate == InitGate /\ [][Next]_vars

\* SpecConc: index.ts with a refresh token, two requests in flight at once,
\* against an upstream that holds no task list
InitConc ==
    InitServer({1, 2},
               {c \in Configs : c.entry = "index" /\ c.REFRESH_TOKEN /\ c.ICS_TOKEN = ""},
               {Absent}, {}, {"ok", "nonok"}, MaxRequestsConc, MaxTicksConc, 0)

NextConc ==
    \/ \E r \in Slots : HandleRequest(r)
    \/ \E r \in Slots : AuthResponds(r)
    \/ \E r \in Slots : RefreshReturns(r)
    \/ \E r \in Slots : ListsResponse(r)
    \/ Tick

SpecConc == InitConc /\ [][NextConc]_vars

-----------------------------------------------------------------------------
(* SpecCal: buildCalendar as a pure function, over drawn task sequences *)

DaysInMonth(y, m) ==
    IF m = 2 THEN (IF DaysInYear(y) = 366 THEN 29 ELSE 28)
    ELSE IF m \in {4, 6, 9, 11} THEN 30
    ELSE 31

Years == {1, 99, 100, 1900, 1999, 2000, 2023, 2024, 2100}

DateTasks ==
    {Task("t", "Due", notStarted, Due(DateStr(y, m, d) \o rest, tz)) :
        y \in Years, m \in 1..12, d \in {1, 15, 27, 28, 29, 30, 31},
        rest \in {<<>>, Midnight, LateEvening}, tz \in {Undefined, UTC}}

ValidDateTasks ==
    {t \in DateTasks :
        LET ymd == ymdOf(t.dueDateTime.dateTime)
        IN  ymd[3] <= DaysInMonth(ymd[1], ymd[2])}

MixedTasks == {TRent, TNoStatus, TDone, TNoDue, TNoDateTime, TEmptyDue, TBadDue}

RECURSIVE SeqsUpTo(_, _)
SeqsUpTo(S, n) ==
    IF n = 0 THEN {<<>>}
    ELSE LET shorter == SeqsUpTo(S, n - 1)
         IN  shorter \cup {Append(q, x) : q \in {z \in shorter : Len(z) = n - 1}, x \in S}

InitCal ==
    /\ cfg = [entry |-> "none", ACCESS_TOKEN |-> NoToken, REFRESH_TOKEN |-> FALSE,
              ICS_TOKEN |-> ""]
    /\ clock = 1
    /\ currentAccessToken = NoToken
    /\ tokenExpiryTime = 0
    /\ req = [r \in Slots |-> IdleReq]
    /\ issued = 0
    /\ nreq = 0
    /\ env = [slots |-> {}, queries |-> {}, arrays |-> {}, authKinds |-> {},
              graphKinds |-> {}, maxRequests |-> 0, maxTicks |-> 0, maxLists |-> 0]
    /\ calImpl = "none"
    /\ calIn \in {<<t>> : t \in ValidDateTasks} \cup SeqsUpTo(MixedTasks, MaxTasks)
    /\ calOut = NoCal

\* index.ts buildCalendar(tasks) is called
BuildCalendar ==
    /\ calImpl = "none"
    /\ calImpl' = "index"
    /\ calOut' = buildCalendar(calIn)
    /\ UNCHANGED <<calIn, serverVars>>

\* part_000 buildCalendar(tasks) is called
BuildCalendarMsal ==
    /\ calImpl = "none"
    /\ calImpl' = "msal"
    /\ calOut' = buildCalendarMsal(calIn)
    /\ UNCHANGED <<calIn, serverVars>>

NextCal == BuildCalendar \/ BuildCalendarMsal

SpecCal == InitCal /\ [][NextCal]_vars

-----------------------------------------------------------------------------
(* Claims about the calendar builder *)

\* the calendar date a timestamp of the form YYYY-MM-DD... begins with
LeadingDate(iso) ==
    <<DigitsValue(SubSeq(iso, 1, 4)), DigitsValue(SubSeq(iso, 6, 7)),
      DigitsValue(SubSeq(iso, 9, 10))>>

\* the calendar date following y-m-d in the Gregorian calendar
FollowingDate(ymd) ==
    IF ymd[3] < DaysInMonth(ymd[1], ymd[2]) THEN <<ymd[1], ymd[2], ymd[3] + 1>>
    ELSE IF ymd[2] < 12 THEN <<ymd[1], ymd[2] + 1, 1>>
    ELSE <<ymd[1] + 1, 1, 1>>

IsDateRun == calImpl # "none" /\ Len(calIn) = 1 /\ calIn[1] \in ValidDateTasks

SpansDueDay(date) ==
    /\ calOut.ok
    /\ Len(calOut.events) = 1
    /\ CivilOf(calOut.events[1].start) = date
    /\ CivilOf(calOut.events[1].end) = FollowingDate(date)

\* C6: for a task whose due timestamp begins with a valid calendar date
\* YYYY-MM-DD, the event starts on that date and ends (exclusive) on the
\* following calendar date, whatever the time of day and timeZone are.
C6_EventSpansDueDate ==
    IsDateRun => SpansDueDay(LeadingDate(calIn[1].dueDateTime.dateTime))

\* C6, for years the code handles: the same statement for years 0100-9999 holds
\* (Date.UTC reads a year of 0..99 as 1900 + year).
C6_EventSpansDueDateFrom100 ==
    (IsDateRun /\ LeadingDate(calIn[1].dueDateTime.dateTime)[1] >= 100)
        => SpansDueDay(LeadingDate(calIn[1].dueDateTime.dateTime))

C6_Witness ==
    /\ IsDateRun
    /\ LeadingDate(calIn[1].dueDateTime.dateTime) = <<2024, 2, 29>>
    /\ calIn[1].dueDateTime.dateTime = DateStr(2024, 2, 29) \o LateEvening
    /\ CivilOf(calOut.events[1].end) = <<2024, 3, 1>>

LacksDue(t) ==
    \/ ~t.dueDateTime.present
    \/ t.dueDateTime.dateTime = Undefined
    \/ t.dueDateTime.dateTime = <<>>

RECURSIVE WithDue(_)
WithDue(tasks) ==
    IF tasks = <<>> THEN <<>>
    ELSE (IF LacksDue(Head(tasks)) THEN <<>> ELSE <<Head(tasks)>>) \o WithDue(Tail(tasks))

IsMixedRun ==
    /\ calImpl # "none"
    /\ \A k \in 1..Len(calIn) : calIn[k] \in MixedTasks \ {TBadDue}

SkipsDueless ==
    /\ calOut.ok
    /\ Len(calOut.events) = Len(WithDue(calIn))
    /\ \A k \in 1..Len(calOut.events) :
           calOut.events[k].id = "todo-" \o WithDue(calIn)[k].id

\* C9: buildCalendar never fails on a task that lacks a due timestamp; it
\* skips it and produces exactly one event per remaining task, in input order.
C9_BuildSkipsDueless == IsMixedRun => SkipsDueless

\* C9, for index.ts alone: its buildCalendar does skip such tasks.
C9_IndexSkipsDueless == (IsMixedRun /\ calImpl = "index") => SkipsDueless

C9_Witness ==
    /\ calImpl = "index"
    /\ calIn = <<TNoDue, TRent>>
    /\ Len(calOut.events) = 1

-----------------------------------------------------------------------------
(* Claims about the feed pipeline (Spec) *)

RECURSIVE Flatten(_)
Flatten(arrays) ==
    IF arrays = <<>> THEN <<>> ELSE Head(arrays) \o Flatten(Tail(arrays))

\* a due task: a non-empty due timestamp and a status other than completed
Qualifies(t) ==
    /\ ~LacksDue(t)
    /\ toLowerCase(IF t.status = Undefined THEN <<>> ELSE t.status) # completed

RECURSIVE DueTasks(_)
DueTasks(tasks) ==
    IF tasks = <<>> THEN <<>>
    ELSE (IF Qualifies(Head(tasks)) THEN <<Head(tasks)>> ELSE <<>>)
             \o DueTasks(Tail(tasks))

\* the due timestamp starts with YYYY-MM-DD
WellFormedDue(t) ==
    LET iso == t.dueDateTime.dateTime
    IN  /\ Len(iso) >= 10
        /\ \A k \in {1, 2, 3, 4, 6, 7, 9, 10} : IsDigit(iso[k])
        /\ iso[5] = "-" /\ iso[8] = "-"

Finished(r) == req[r].pc = "done"

StatusOf(r) == req[r].responses[1].status

Served(r) == Finished(r) /\ Len(req[r].responses) = 1 /\ StatusOf(r) = 200

AllSucceeded(r) ==
    /\ req[r].tokenAnswer \in {"none", "ok"}
    /\ \A k \in 1..Len(req[r].answers) : req[r].answers[k] = "ok"
    /\ \A k \in 1..Len(DueTasks(Flatten(req[r].fetched))) :
           WellFormedDue(DueTasks(Flatten(req[r].fetched))[k])

\* C4: a request that passes the secret check ends with exactly one response:
\* 200 with the calendar if every step succeeded, otherwise 500 with the one
\* generic body; no request in flight has been answered.
C4_OneResponse200Or500 ==
    \A r \in Slots :
        /\ Len(req[r].responses) = (IF Finished(r) THEN 1 ELSE 0)
        /\ (Finished(r) /\ StatusOf(r) # 401) =>
               IF AllSucceeded(r)
               THEN /\ StatusOf(r) = 200
                    /\ req[r].responses[1].body = "text/calendar"
               ELSE /\ StatusOf(r) = 500
                    /\ req[r].responses[1].body = "Calendar feed error"
                    /\ req[r].responses[1].events = <<>>

C4_Witness ==
    \E r \in Slots :
        /\ Finished(r)
        /\ StatusOf(r) = 500
        /\ req[r].tokenAnswer = "ok"
        /\ req[r].answers = <<"ok", "ok">>
        /\ req[r].fetched = <<<<TBadDue>>>>

\* C5: the per-list requests go out one at a time in enumeration order, and
\* the first call that does not succeed ends the fetch: no later request is
\* sent and no task is returned.
C5_SequentialAbortOnFirstFailure ==
    \A r \in Slots :
        LET g == req[r].graph
            a == req[r].answers
        IN  /\ \A j \in 1..Len(g) :
                   g[j] = (IF j = 1 THEN "lists" ELSE ListIds[j - 1])
            /\ Len(g) = Len(a) + (IF req[r].pc \in {"await_lists", "await_tasks"}
                                  THEN 1 ELSE 0)
            /\ \A j \in 1..Len(a) :
                   a[j] # "ok" =>
                       /\ j = Len(a)
                       /\ Finished(r)
                       /\ StatusOf(r) = 500
                       /\ req[r].responses[1].events = <<>>

C5_Witness ==
    \E r \in Slots :
        /\ Finished(r)
        /\ req[r].graph = <<"lists", "L1", "L2">>
        /\ req[r].answers = <<"ok", "ok", "nonok">>
        /\ req[r].fetched = <<<<TRent, TDoneCap, TEmptyDue>>>>
        /\ StatusOf(r) = 500

-----------------------------------------------------------------------------
(* Claims about the secret check (SpecGate) *)

\* the token parameter is a string, and that string is the secret
ExactlyTheSecret(q) == q.kind = "string" /\ q.v[1] = cfg.ICS_TOKEN

PipelineRan(r) == req[r].graph # <<>> \/ req[r].tokenAnswer # "none"

\* C3: 401 if and only if a secret is configured and the token parameter is
\* absent or not exactly equal to it; a 401 request sends no refresh and no
\* Graph request; every other request runs the pipeline.
C3_Gate401IffNotTheSecret ==
    \A r \in Slots :
        Finished(r) =>
            /\ StatusOf(r) = 401 <=>
                   (cfg.ICS_TOKEN # "" /\ ~ExactlyTheSecret(req[r].query))
            /\ StatusOf(r) = 401 => (req[r].refreshes = 0 /\ ~PipelineRan(r))
            /\ StatusOf(r) # 401 => PipelineRan(r)

\* C3, on the string the handler compares: the same statement holds when the
\* parameter is first coerced as String(req.query.token || "") coerces it.
C3_Gate401IffCoercedDiffers ==
    \A r \in Slots :
        Finished(r) =>
            /\ StatusOf(r) = 401 <=>
                   (cfg.ICS_TOKEN # "" /\ tokenParam(req[r].query) # cfg.ICS_TOKEN)
            /\ StatusOf(r) = 401 => (req[r].refreshes = 0 /\ ~PipelineRan(r))
            /\ StatusOf(r) # 401 => PipelineRan(r)

C3_Witness ==
    \E r \in Slots :
        /\ Finished(r)
        /\ StatusOf(r) = 401
        /\ req[r].query = Str("wrong")
        /\ cfg.ICS_TOKEN = "s3cret"

-----------------------------------------------------------------------------
(* Claims about the token cache (SpecConc) *)

InFlight(r) == req[r].pc \notin {"idle", "done"}

\* the request in slot r arrives in this step
Arrives(r) == ~InFlight(r) /\ req'[r].pc \notin {"idle", "done"}

\* the refresh exchange of slot r's call succeeds in this step
Refreshed(r) == req[r].pc = "await_refresh" /\ req'[r].pc = "await_lists"

\* the refresh exchange of slot r's call is answered non-success and the call
\* resumes in this step
RefreshRejected(r) ==
    /\ req[r].pc = "await_refresh"
    /\ req[r].resp.kind = "nonok"
    /\ req'[r] # req[r]

CacheUnchanged == UNCHANGED <<currentAccessToken, tokenExpiryTime>>

C1_Step(r) ==
    /\ Arrives(r) =>
           IF currentAccessToken # NoToken /\ clock < tokenExpiryTime
           THEN /\ req'[r].pc = "await_lists"
                /\ req'[r].accessToken = currentAccessToken
                /\ req'[r].refreshes = 0
                /\ CacheUnchanged
           ELSE /\ req'[r].pc = "await_refresh"
                /\ req'[r].refreshes = 1
                /\ req'[r].now = clock
                /\ CacheUnchanged
    /\ Refreshed(r) =>
           /\ req[r].resp.kind = "ok"
           /\ req'[r].refreshes = 1
           /\ req'[r].accessToken = req[r].resp.access_token
           /\ currentAccessToken' = req[r].resp.access_token
           /\ tokenExpiryTime' = req[r].now + req[r].resp.expires_in * 1000 - 60000
    /\ InFlight(r) => req'[r].refreshes = req[r].refreshes

\* C1: with a refresh token configured, a call made while a token is cached
\* and the time is strictly before the cached expiry sends no refresh and
\* returns the cached token; any other call (the first one included, even
\* with ACCESS_TOKEN configured) sends exactly one refresh, and on success
\* returns and caches that response's token with expiry
\* call start + expires_in * 1000 - 60000.
C1_CachedOrOneRefresh == [][\A r \in Slots : C1_Step(r)]_vars

C1_Witness ==
    \E r \in Slots :
        /\ cfg.ACCESS_TOKEN = StaticToken
        /\ req[r].pc = "await_lists"
        /\ req[r].fromCache
        /\ req[r].accessToken.id >= 2
        /\ req[r].now + TickMs = tokenExpiryTime

C7_Step(r) ==
    /\ RefreshRejected(r) =>
           /\ req'[r].pc = "done"
           /\ req'[r].responses = <<[status |-> 500, body |-> "Calendar feed error",
                                     events |-> <<>>]>>
           /\ req'[r].refreshes = 1
           /\ req'[r].graph = <<>>
           /\ CacheUnchanged
           /\ (currentAccessToken = req[r].seen.token
                  /\ tokenExpiryTime = req[r].seen.expiry)
              => ~(currentAccessToken' # NoToken /\ clock' < tokenExpiryTime')
    /\ (Arrives(r) /\ req'[r].pc = "await_refresh") => CacheUnchanged

\* C7: when the refresh exchange answers non-success, the call fails after
\* that one refresh request and leaves the cached token and expiry as they
\* were, so that (no other call having refreshed meanwhile) the next call
\* finds the cache expired again.
C7_FailedRefreshKeepsCache == [][\A r \in Slots : C7_Step(r)]_vars

C7_Witness ==
    \E r \in Slots :
        /\ Finished(r)
        /\ req[r].tokenAnswer = "nonok"
        /\ req[r].refreshes = 1
        /\ StatusOf(r) = 500
        /\ currentAccessToken = cfg.ACCESS_TOKEN
        /\ tokenExpiryTime = 0

SawValidCache(r) ==
    req[r].seen.token # NoToken /\ req[r].now < req[r].seen.expiry

\* C8: a request that finds the cache expired or absent performs a refresh of
\* its own whether or not another request is already refreshing (there is no
\* single-flight guard), and each refreshed call holds the token of its own
\* response.
C8_EachCallRefreshesItself ==
    /\ \A r \in Slots :
           InFlight(r) =>
               /\ req[r].fromCache <=> SawValidCache(r)
               /\ req[r].refreshes = (IF req[r].fromCache THEN 0 ELSE 1)
               /\ (req[r].pc = "await_lists" /\ ~req[r].fromCache) =>
                      /\ req[r].resp.kind = "ok"
                      /\ req[r].accessToken = req[r].resp.access_token
    /\ \A r1, r2 \in Slots :
           (/\ r1 # r2
            /\ req[r1].pc = "await_lists" /\ ~req[r1].fromCache
            /\ req[r2].pc = "await_lists" /\ ~req[r2].fromCache)
           => req[r1].accessToken # req[r2].accessToken

C8_Witness ==
    /\ req[1].pc = "await_lists" /\ req[2].pc = "await_lists"
    /\ req[1].refreshes = 1 /\ req[2].refreshes = 1
    /\ req[1].seen = req[2].seen
    /\ req[1].accessToken.id # req[2].accessToken.id
    /\ currentAccessToken = req[1].accessToken

\* when the token really expires, in ms
RealExpiry(t) == t.iat + t.lifetime * 1000

\* C10: the cached token and expiry always come from one refresh response
\* (or are the initial ACCESS_TOKEN with expiry 0), the cached expiry is at
\* most that token's real expiry minus 60 s, and a token returned from the
\* cache is a refreshed one, returned before its real expiry minus 60 s.
C10_CacheIsOneResponse ==
    /\ \/ currentAccessToken = cfg.ACCESS_TOKEN /\ tokenExpiryTime = 0
       \/ /\ currentAccessToken.id >= 2
          /\ tokenExpiryTime <= RealExpiry(currentAccessToken) - 60000
          /\ tokenExpiryTime - currentAccessToken.lifetime * 1000 + 60000 >= 1
    /\ \A r \in Slots :
           (InFlight(r) /\ req[r].fromCache) =>
               /\ req[r].accessToken.id >= 2
               /\ req[r].now < RealExpiry(req[r].accessToken) - 60000

C10_Witness ==
    /\ currentAccessToken.id >= 2
    /\ tokenExpiryTime < RealExpiry(currentAccessToken) - 60000
    /\ \E r \in Slots : req[r].pc = "await_lists" /\ req[r].fromCache
                          /\ req[r].accessToken = currentAccessToken

=============================================================================
